---- MODULE Spec2Model ----
(***************************************************************************)
(* magent/model.py: ProcessingModel (the supervisor-side handle) and       *)
(* model_client (the worker loop hosting an RL model), connected by one    *)
(* duplex multiprocessing.Pipe.                                            *)
(*                                                                         *)
(* The handle and the worker are two sequential processes.  A handle       *)
(* method is a send followed, when it blocks, by one recv; the worker is   *)
(* a loop of recv, dispatch, send.  The pipe is modelled as two FIFO       *)
(* queues, one per direction.                                              *)
(***************************************************************************)
EXTENDS Integers, Sequences, FiniteSets, TLC

\* ---------------------------------------------------------------- bounds
MaxCalls == 3          \* handle method calls in a run of any caller
MaxKept  == 7          \* handle method calls while the caller keeps the discipline
Capacity == 2          \* sample_buffer_capacity given to the constructor

\* ---------------------------------------------------------------- inputs
ObsSet      == {1, 2}          \* raw_obs values
IdsSet      == {7}             \* ids values
PolicySet   == {"e_greedy"}    \* policy argument (its default)
EpsSet      == {0}             \* eps argument (its default)
RewardSet   == {5}             \* rewards values
AliveSet    == {1}             \* alives values
PrintSet    == {5000}          \* print_every (its default)
DirSet      == {"dir"}         \* save_dir
EpochSet    == {3}             \* epoch
NameSet     == {"None"}        \* name (its default)
BufPolicies == {"evict", "stop"}   \* what a full EpisodesBuffer does
UnknownTags == {"bogus"}           \* tags model_client does not know

VARIABLES
    \* the pipe
    toHost,          \* commands sent by the handle, not yet read by the worker
    toHandle,        \* responses sent by the worker, not yet read by the handle
    \* the handle process (a caller driving one ProcessingModel)
    hpc,             \* "idle": between calls; "recv": inside conn.recv()
    hcall,           \* the method that is running, or that ran last
    hret,            \* how the last finished call ended
    \* the worker process (model_client)
    hostpc,          \* "init", "ready" (in conn.recv), "dispatch", "stopped", "crashed"
    cmd,             \* the command being dispatched
    obs, ids, acts,  \* the loop's locals; <<>> while unbound, <<v>> once bound
    sample_buffer,   \* the EpisodesBuffer: [capacity, steps]
    model,           \* what the RL model was last invoked with
    bufPolicy,       \* the full-buffer policy of EpisodesBuffer
    \* history
    hh,              \* the handle's history
    wh,              \* the worker's history
    snap             \* pre-state of the infer_action being followed

vars == <<toHost, toHandle, hpc, hcall, hret, hostpc, cmd, obs, ids, acts,
          sample_buffer, model, bufPolicy, hh, wh, snap>>

pipeVars   == <<toHost, toHandle>>
handleVars == <<hpc, hcall, hret>>
hostVars   == <<hostpc, cmd, obs, ids, acts, sample_buffer, model>>

\* ------------------------------------------------------------ vocabulary
None     == <<>>
Done     == <<"done">>
NoCmd    == [msg |-> <<"none">>, no |-> 0]

Min(a, b) == IF a < b THEN a ELSE b

\* The worker process has left its loop (break or an uncaught exception).
HostGone == hostpc \in {"stopped", "crashed"}

\* Commands sent whose response the handle has not received.
Outstanding == hh.nSent - hh.nRecv


\* ------------------------------------------- collaborators (magent.utility,
\* the RLModel class): consumed through their interfaces only

\* RLModel.infer_action(obs, ids, policy=, eps=): opaque, a function of its
\* arguments and of the model's parameters (changed by training only).
InferResult(o, i, policy, eps, m) == <<"acts", o, i, policy, eps, m.gen>>

\* RLModel.train(sample_buffer, print_every=): returns (loss, value) and
\* updates the parameters.
TrainResult(m) == <<"loss_value", m.gen + 1>>

TrainModel(m, buf, print_every) ==
    [m EXCEPT !.gen = @ + 1, !.fed = <<buf.steps>>, !.print_every = <<print_every>>]

SaveModel(m, savedir, n_iter) == [m EXCEPT !.saved = <<savedir, n_iter>>]

LoadModel(m, savedir, n_iter, name) == [m EXCEPT !.loaded = <<savedir, n_iter, name>>]

\* The worker's sample_buffer before line 233 has run.
NoBuffer == [capacity |-> 0, steps |-> <<>>]

\* EpisodesBuffer(capacity)
NewBuffer(capacity) == [capacity |-> capacity, steps |-> <<>>]

\* EpisodesBuffer.record_step: the buffer never grows past its capacity; a
\* full buffer either drops its oldest step or takes no more.
RecordStep(buf, step) ==
    IF Len(buf.steps) < buf.capacity
    THEN [buf EXCEPT !.steps = Append(@, step)]
    ELSE IF bufPolicy = "evict" /\ buf.capacity > 0
         THEN [buf EXCEPT !.steps = Append(Tail(@), step)]
         ELSE buf

\* Mutant: rewards and alives change places.
StepSwapped(i, o, a, rewards, alives) ==
    [ids |-> i, obs |-> o, acts |-> a, rewards |-> alives, alives |-> rewards]

\* The arguments of sample_buffer.record_step(ids, obs, acts, rewards, alives).
Step(i, o, a, rewards, alives) ==
    [ids |-> i, obs |-> o, acts |-> a, rewards |-> rewards, alives |-> alives]

\* ------------------------------------------------------------------ Init
\* ProcessingModel.__init__: the pipe is created, the worker process is
\* started and has not run yet.
Init ==
    /\ toHost = <<>>
    /\ toHandle = <<>>
    /\ hpc = "idle"
    /\ hcall = [name |-> "__init__", no |-> 0, msg |-> None, block |-> FALSE]
    /\ hret = [name |-> "__init__", no |-> 0, kind |-> "return", val |-> None]
    /\ hostpc = "init"
    /\ cmd = NoCmd
    /\ obs = <<>>
    /\ ids = <<>>
    /\ acts = <<>>
    /\ sample_buffer = NoBuffer
    /\ model = [gen |-> 0, fed |-> <<>>, print_every |-> <<>>,
                saved |-> <<>>, loaded |-> <<>>]
    /\ bufPolicy \in BufPolicies
    /\ hh = [nCalls |-> 0, nSent |-> 0, nRecv |-> 0,
             quit |-> FALSE, quitAt |-> 0, quitCall |-> 0,
             disciplined |-> TRUE, pending |-> "none", allBlocking |-> TRUE,
             failed |-> FALSE, recvAtCall |-> 0,
             lastRecv |-> [call |-> 0, of |-> 0, val |-> None]]
    /\ wh = [nRead |-> 0, nWrote |-> 0, nDone |-> 0, last |-> "none",
             lastInfer |-> <<>>, lastStep |-> <<>>, since |-> 0, fedSince |-> 0, fedLast |-> <<>>]
    /\ snap = <<>>


\* ------------------------------------------------------------ the handle
Running(name)       == [name |-> name, no |-> hh.nCalls + 1, kind |-> "running", val |-> None]
Returned(name, n, v) == [name |-> name, no |-> n, kind |-> "return", val |-> v]
Raised(name, n, e)   == [name |-> name, no |-> n, kind |-> "raise", val |-> <<e>>]

\* Mutant: sample_step returns what it receives without checking it.
AssertingNoSample == {"save", "load", "check_done"}

\* Mutant: fetch_action goes through check_done.
AssertingFetchAction ==
    {"sample_step", "save", "load", "check_done", "fetch_action"}

\* Methods whose receive is check_done's (assert conn.recv() == 'done').
Asserting == {"sample_step", "save", "load", "check_done"}

\* conn.send on the handle's end: with the worker process gone the write
\* either still lands in the pipe or raises.
SendOutcomes == IF HostGone THEN {TRUE, FALSE} ELSE {TRUE}

\* The caller keeps the request discipline: one command at a time, each
\* non-blocking command drained by its own fetch, nothing after quit or after
\* a failed call.
Keeps(isFetch, kind) ==
    /\ hh.disciplined
    /\ ~hh.quit
    /\ ~hh.failed
    /\ hh.pending = (IF isFetch THEN kind ELSE "none")
    /\ kind # "unknown"

\* How far a run is followed: any call may be one of the first MaxCalls, and
\* a call that keeps the discipline one of the first MaxKept.
MayCall(isFetch, kind) ==
    \/ hh.nCalls < MaxCalls
    \/ hh.nCalls < MaxKept /\ Keeps(isFetch, kind)

\* Nothing in flight and the worker waiting for a command.
Quiescent ==
    /\ hostpc = "ready"
    /\ toHost = <<>>
    /\ toHandle = <<>>
    /\ Outstanding = 0

\* Mutant: the block flag is ignored and no method waits.
AfterSendNever(block) == "idle"

\* The "if block:" branch after a send: wait for the response, or return.
AfterSend(block) == IF block THEN "recv" ELSE "idle"

\* self.conn.send(m), then the method's "if block:" branch.
Issue(name, m, kind, block, snapNext) ==
    /\ hpc = "idle"
    /\ MayCall(FALSE, kind)
    /\ hcall' = [name |-> name, no |-> hh.nCalls + 1, msg |-> m, block |-> block]
    /\ \E ok \in SendOutcomes :
         IF ok
         THEN /\ toHost' = Append(toHost, [msg |-> m, no |-> hh.nSent + 1])
              /\ hpc' = AfterSend(block)
              /\ hret' = IF AfterSend(block) = "recv"
                         THEN Running(name)
                         ELSE Returned(name, hh.nCalls + 1, None)
              /\ hh' = [hh EXCEPT !.nCalls = @ + 1,
                                  !.nSent = @ + 1,
                                  !.disciplined = Keeps(FALSE, kind),
                                  !.pending = IF block THEN hh.pending ELSE kind,
                                  !.recvAtCall = hh.nRecv,
                                  !.allBlocking = @ /\ block]
              /\ snap' = snapNext
         ELSE /\ toHost' = toHost
              /\ hpc' = "idle"
              /\ hret' = Raised(name, hh.nCalls + 1, "BrokenPipeError")
              /\ hh' = [hh EXCEPT !.nCalls = @ + 1,
                                  !.disciplined = Keeps(FALSE, kind),
                                  !.allBlocking = @ /\ block,
                                  !.recvAtCall = hh.nRecv,
                                  !.failed = TRUE]
              /\ snap' = <<>>
    /\ UNCHANGED <<toHandle, hostVars, bufPolicy, wh>>

\* Mutant: the receive polls, and returns None when the pipe is empty.
FetchPolling(name, kind, snapNext) ==
    /\ hpc = "idle"
    /\ MayCall(TRUE, kind)
    /\ hcall' = [name |-> name, no |-> hh.nCalls + 1, msg |-> None, block |-> TRUE]
    /\ hpc' = IF toHandle = <<>> THEN "idle" ELSE "recv"
    /\ hret' = IF toHandle = <<>> THEN Returned(name, hh.nCalls + 1, None)
                                  ELSE Running(name)
    /\ hh' = [hh EXCEPT !.nCalls = @ + 1,
                        !.disciplined = Keeps(TRUE, kind),
                        !.pending = "none",
                        !.recvAtCall = hh.nRecv,
                        !.allBlocking = FALSE]
    /\ snap' = <<>>
    /\ UNCHANGED <<pipeVars, hostVars, bufPolicy, wh>>

\* A method that only receives: fetch_action, fetch_train, check_done.
Fetch(name, kind, snapNext) ==
    /\ hpc = "idle"
    /\ MayCall(TRUE, kind)
    /\ hcall' = [name |-> name, no |-> hh.nCalls + 1, msg |-> None, block |-> TRUE]
    /\ hpc' = "recv"
    /\ hret' = Running(name)
    /\ hh' = [hh EXCEPT !.nCalls = @ + 1,
                        !.disciplined = Keeps(TRUE, kind),
                        !.pending = "none",
                        !.recvAtCall = hh.nRecv,
                        !.allBlocking = FALSE]
    /\ snap' = snapNext
    /\ UNCHANGED <<pipeVars, hostVars, bufPolicy, wh>>

\* Mutant: the sample command also carries the ids of the step.
sample_stepWithIds ==
    \E rewards \in RewardSet, alives \in AliveSet, i \in IdsSet, block \in BOOLEAN :
        Issue("sample_step", <<"sample", i, rewards, alives>>, "done", block, <<>>)

sample_step ==
    \E rewards \in RewardSet, alives \in AliveSet, block \in BOOLEAN :
        Issue("sample_step", <<"sample", rewards, alives>>, "done", block, <<>>)

infer_action ==
    \E raw_obs \in ObsSet, i \in IdsSet, policy \in PolicySet, eps \in EpsSet,
       block \in BOOLEAN :
        Issue("infer_action", <<"act", raw_obs, i, policy, eps>>, "action", block,
              IF Quiescent
              THEN <<[block |-> block, obs |-> raw_obs, ids |-> i, policy |-> policy,
                      eps |-> eps, model |-> model, buffer |-> sample_buffer,
                      done |-> FALSE]>>
              ELSE <<>>)

fetch_action ==
    Fetch("fetch_action", "action",
          IF snap # <<>> /\ ~snap[1].block /\ ~snap[1].done THEN snap ELSE <<>>)

train ==
    \E print_every \in PrintSet, block \in BOOLEAN :
        Issue("train", <<"train", print_every>>, "train", block, <<>>)

fetch_train == Fetch("fetch_train", "train", <<>>)

save ==
    \E save_dir \in DirSet, epoch \in EpochSet, block \in BOOLEAN :
        Issue("save", <<"save", save_dir, epoch>>, "done", block, <<>>)

load ==
    \E save_dir \in DirSet, epoch \in EpochSet, name \in NameSet, block \in BOOLEAN :
        Issue("load", <<"load", save_dir, epoch, name>>, "done", block, <<>>)

check_done == Fetch("check_done", "done", <<>>)

\* A caller writing on the handle's public conn attribute (line 99) a message
\* whose tag the worker does not know.
send_unknown ==
    \E tag \in UnknownTags :
        Issue("conn.send", <<tag>>, "unknown", FALSE, <<>>)

\* quit: a send and nothing else.
quit ==
    /\ hpc = "idle"
    /\ MayCall(FALSE, "none")
    /\ hcall' = [name |-> "quit", no |-> hh.nCalls + 1, msg |-> <<"quit">>,
                 block |-> FALSE]
    /\ hpc' = "idle"
    /\ \E ok \in SendOutcomes :
         IF ok
         THEN /\ toHost' = Append(toHost, [msg |-> <<"quit">>, no |-> 0])
              /\ hret' = Returned("quit", hh.nCalls + 1, None)
              /\ hh' = [hh EXCEPT !.nCalls = @ + 1,
                                  !.disciplined = Keeps(FALSE, "none"),
                                  !.allBlocking = FALSE,
                                  !.quit = TRUE,
                                  !.quitAt = IF hh.quit THEN @ ELSE hh.nSent,
                                  !.quitCall = IF hh.quit THEN @ ELSE hh.nCalls + 1]
         ELSE /\ toHost' = toHost
              /\ hret' = Raised("quit", hh.nCalls + 1, "BrokenPipeError")
              /\ hh' = [hh EXCEPT !.nCalls = @ + 1,
                                  !.disciplined = Keeps(FALSE, "none"),
                                  !.allBlocking = FALSE,
                                  !.failed = TRUE]
    /\ snap' = <<>>
    /\ UNCHANGED <<toHandle, hostVars, bufPolicy, wh>>

\* self.conn.recv() returns the oldest response in the pipe.  infer_action,
\* fetch_action, train and fetch_train return it; check_done asserts it is
\* 'done'.
HandleRecv ==
    /\ hpc = "recv"
    /\ toHandle # <<>>
    /\ LET r == Head(toHandle) IN
         /\ toHandle' = Tail(toHandle)
         /\ hpc' = "idle"
         /\ hret' = IF hcall.name \in Asserting
                    THEN IF r.val = Done
                         THEN Returned(hcall.name, hcall.no, None)
                         ELSE Raised(hcall.name, hcall.no, "AssertionError")
                    ELSE Returned(hcall.name, hcall.no, r.val)
         /\ hh' = [hh EXCEPT !.nRecv = @ + 1,
                             !.failed = @ \/ (hcall.name \in Asserting /\ r.val # Done),
                             !.lastRecv = [call |-> hcall.no, of |-> r.of, val |-> r.val]]
         /\ snap' = IF snap # <<>> THEN <<[snap[1] EXCEPT !.done = TRUE]>> ELSE <<>>
    /\ UNCHANGED <<toHost, hcall, hostVars, bufPolicy, wh>>

\* self.conn.recv() with the pipe empty and the worker gone: the read either
\* stays blocked (this action is not taken) or raises EOFError.
HandleRecvEOF ==
    /\ hpc = "recv"
    /\ toHandle = <<>>
    /\ HostGone
    /\ hpc' = "idle"
    /\ hret' = Raised(hcall.name, hcall.no, "EOFError")
    /\ hh' = [hh EXCEPT !.failed = TRUE]
    /\ snap' = <<>>
    /\ UNCHANGED <<pipeVars, hcall, hostVars, bufPolicy, wh>>


\* ------------------------------------------------------------ the worker
\* An uncaught exception ends the worker process.
Crash ==
    /\ hostpc' = "crashed"
    /\ UNCHANGED <<toHandle, wh>>

\* Mutant: the response is written twice.
RespondTwice(v) ==
    /\ toHandle' = toHandle \o <<[val |-> v, of |-> cmd.no], [val |-> v, of |-> cmd.no]>>
    /\ hostpc' = "ready"

\* Mutant: the response is put in front of the ones not yet read.
RespondFirst(v) ==
    /\ toHandle' = <<[val |-> v, of |-> cmd.no]>> \o toHandle
    /\ hostpc' = "ready"

\* conn.send(v) on the worker's end, closing one loop iteration.
Respond(v) ==
    /\ toHandle' = Append(toHandle, [val |-> v, of |-> cmd.no])
    /\ hostpc' = "ready"

Finished(tag) == [wh EXCEPT !.nWrote = @ + 1, !.nDone = @ + 1, !.last = tag]

\* Mutant: the buffer is built one step too large.
BufferAtStartLarger == NewBuffer(Capacity + 1)

\* Line 233: sample_buffer = EpisodesBuffer(capacity=sample_buffer_capacity)
BufferAtStart == NewBuffer(Capacity)

\* Mutant: train keeps the buffer it has just trained on.
BufferKept(buf) == buf

\* Line 247: sample_buffer = EpisodesBuffer(sample_buffer_capacity)
BufferAfterTrain(buf) == NewBuffer(Capacity)

\* Lines 232-233: build the model and the buffer.  RLModel(**model_args) may
\* raise.
HostStart ==
    /\ hostpc = "init"
    /\ \E ok \in BOOLEAN :
         IF ok
         THEN /\ sample_buffer' = BufferAtStart
              /\ hostpc' = "ready"
         ELSE /\ sample_buffer' = sample_buffer
              /\ hostpc' = "crashed"
    /\ UNCHANGED <<pipeVars, handleVars, cmd, obs, ids, acts, model, bufPolicy,
                   hh, wh, snap>>

\* Line 236: cmd = conn.recv()
HostRecv ==
    /\ hostpc = "ready"
    /\ toHost # <<>>
    /\ cmd' = Head(toHost)
    /\ toHost' = Tail(toHost)
    /\ hostpc' = "dispatch"
    /\ wh' = [wh EXCEPT !.nRead = IF Head(toHost).msg[1] = "quit" THEN @ ELSE @ + 1]
    /\ UNCHANGED <<toHandle, handleVars, obs, ids, acts, sample_buffer, model,
                   bufPolicy, hh, snap>>

\* Lines 237-243
HostAct ==
    /\ hostpc = "dispatch"
    /\ cmd.msg[1] = "act"
    /\ obs' = <<cmd.msg[2]>>
    /\ ids' = <<cmd.msg[3]>>
    /\ \E ok \in BOOLEAN :
         IF ok
         THEN LET a == InferResult(cmd.msg[2], cmd.msg[3], cmd.msg[4], cmd.msg[5], model)
              IN /\ acts' = <<a>>
                 /\ Respond(a)
                 /\ wh' = [Finished("act") EXCEPT
                              !.lastInfer = <<[ids |-> cmd.msg[3], obs |-> cmd.msg[2],
                                               acts |-> a]>>]
         ELSE /\ acts' = acts
              /\ Crash
    /\ UNCHANGED <<toHost, handleVars, cmd, sample_buffer, model, bufPolicy, hh, snap>>

\* Mutant: the 'train' branch forgets its conn.send.
HostTrainSilent ==
    /\ hostpc = "dispatch"
    /\ cmd.msg[1] = "train"
    /\ \E ok \in BOOLEAN :
         IF ok
         THEN /\ model' = TrainModel(model, sample_buffer, cmd.msg[2])
              /\ sample_buffer' = BufferAfterTrain(sample_buffer)
              /\ toHandle' = toHandle
              /\ hostpc' = "ready"
              /\ wh' = [wh EXCEPT !.nDone = @ + 1, !.last = "train", !.since = 0,
                                  !.fedSince = wh.since, !.fedLast = wh.lastStep]
         ELSE /\ model' = model
              /\ sample_buffer' = sample_buffer
              /\ Crash
    /\ UNCHANGED <<toHost, handleVars, cmd, obs, ids, acts, bufPolicy, hh, snap>>

\* Lines 244-248
HostTrain ==
    /\ hostpc = "dispatch"
    /\ cmd.msg[1] = "train"
    /\ \E ok \in BOOLEAN :
         IF ok
         THEN /\ model' = TrainModel(model, sample_buffer, cmd.msg[2])
              /\ sample_buffer' = BufferAfterTrain(sample_buffer)
              /\ Respond(TrainResult(model))
              /\ wh' = [Finished("train") EXCEPT !.since = 0,
                                                 !.fedSince = wh.since,
                                                 !.fedLast = wh.lastStep]
         ELSE /\ model' = model
              /\ sample_buffer' = sample_buffer
              /\ Crash
    /\ UNCHANGED <<toHost, handleVars, cmd, obs, ids, acts, bufPolicy, hh, snap>>

\* Mutant: a 'sample' that finds ids, obs or acts unbound records nothing and
\* answers 'done'.
HostSampleLenient ==
    /\ hostpc = "dispatch"
    /\ cmd.msg[1] = "sample"
    /\ IF ids # <<>> /\ obs # <<>> /\ acts # <<>>
       THEN LET step == Step(ids[1], obs[1], acts[1], cmd.msg[2], cmd.msg[3])
            IN /\ sample_buffer' = RecordStep(sample_buffer, step)
               /\ Respond(Done)
               /\ wh' = [Finished("sample") EXCEPT !.lastStep = <<step>>,
                                                   !.since = @ + 1]
       ELSE /\ sample_buffer' = sample_buffer
            /\ Respond(Done)
            /\ wh' = Finished("sample")
    /\ UNCHANGED <<toHost, handleVars, cmd, obs, ids, acts, model, bufPolicy, hh, snap>>

\* Lines 249-253.  ids, obs and acts are the loop's locals: reading one that
\* no 'act' has bound raises NameError.
HostSample ==
    /\ hostpc = "dispatch"
    /\ cmd.msg[1] = "sample"
    /\ IF ids # <<>> /\ obs # <<>> /\ acts # <<>>
       THEN LET step == Step(ids[1], obs[1], acts[1], cmd.msg[2], cmd.msg[3])
            IN /\ sample_buffer' = RecordStep(sample_buffer, step)
               /\ Respond(Done)
               /\ wh' = [Finished("sample") EXCEPT !.lastStep = <<step>>,
                                                   !.since = @ + 1]
       ELSE /\ sample_buffer' = sample_buffer
            /\ Crash
    /\ UNCHANGED <<toHost, handleVars, cmd, obs, ids, acts, model, bufPolicy, hh, snap>>

\* Mutant: the 'save' branch forgets its conn.send("done").
HostSaveSilent ==
    /\ hostpc = "dispatch"
    /\ cmd.msg[1] = "save"
    /\ model' = SaveModel(model, cmd.msg[2], cmd.msg[3])
    /\ hostpc' = "ready"
    /\ wh' = [wh EXCEPT !.nDone = @ + 1, !.last = "save"]
    /\ UNCHANGED <<pipeVars, handleVars, cmd, obs, ids, acts, sample_buffer,
                   bufPolicy, hh, snap>>

\* Lines 254-258
HostSave ==
    /\ hostpc = "dispatch"
    /\ cmd.msg[1] = "save"
    /\ \E ok \in BOOLEAN :
         IF ok
         THEN /\ model' = SaveModel(model, cmd.msg[2], cmd.msg[3])
              /\ Respond(Done)
              /\ wh' = Finished("save")
         ELSE /\ model' = model
              /\ Crash
    /\ UNCHANGED <<toHost, handleVars, cmd, obs, ids, acts, sample_buffer,
                   bufPolicy, hh, snap>>

\* Mutant: the 'load' branch ends with a break.
HostLoadBreaks ==
    /\ hostpc = "dispatch"
    /\ cmd.msg[1] = "load"
    /\ \E ok \in BOOLEAN :
         IF ok
         THEN /\ model' = LoadModel(model, cmd.msg[2], cmd.msg[3], cmd.msg[4])
              /\ toHandle' = Append(toHandle, [val |-> Done, of |-> cmd.no])
              /\ hostpc' = "stopped"
              /\ wh' = Finished("load")
         ELSE /\ model' = model
              /\ Crash
    /\ UNCHANGED <<toHost, handleVars, cmd, obs, ids, acts, sample_buffer,
                   bufPolicy, hh, snap>>

\* Mutant: the 'load' branch also starts a fresh buffer.
HostLoadResets ==
    /\ hostpc = "dispatch"
    /\ cmd.msg[1] = "load"
    /\ \E ok \in BOOLEAN :
         IF ok
         THEN /\ model' = LoadModel(model, cmd.msg[2], cmd.msg[3], cmd.msg[4])
              /\ sample_buffer' = NewBuffer(Capacity)
              /\ Respond(Done)
              /\ wh' = Finished("load")
         ELSE /\ model' = model
              /\ sample_buffer' = sample_buffer
              /\ Crash
    /\ UNCHANGED <<toHost, handleVars, cmd, obs, ids, acts, bufPolicy, hh, snap>>

\* Lines 259-264
HostLoad ==
    /\ hostpc = "dispatch"
    /\ cmd.msg[1] = "load"
    /\ \E ok \in BOOLEAN :
         IF ok
         THEN /\ model' = LoadModel(model, cmd.msg[2], cmd.msg[3], cmd.msg[4])
              /\ Respond(Done)
              /\ wh' = Finished("load")
         ELSE /\ model' = model
              /\ Crash
    /\ UNCHANGED <<toHost, handleVars, cmd, obs, ids, acts, sample_buffer,
                   bufPolicy, hh, snap>>

\* Mutant: the 'quit' branch acknowledges with 'done' before it leaves.
HostQuitAcks ==
    /\ hostpc = "dispatch"
    /\ cmd.msg[1] = "quit"
    /\ toHandle' = Append(toHandle, [val |-> Done, of |-> cmd.no])
    /\ hostpc' = "stopped"
    /\ wh' = [wh EXCEPT !.last = "quit"]
    /\ UNCHANGED <<toHost, handleVars, cmd, obs, ids, acts, sample_buffer, model,
                   bufPolicy, hh, snap>>

\* Mutant: the 'quit' branch does not leave the loop.
HostQuitContinue ==
    /\ hostpc = "dispatch"
    /\ cmd.msg[1] = "quit"
    /\ hostpc' = "ready"
    /\ wh' = [wh EXCEPT !.last = "quit"]
    /\ UNCHANGED <<pipeVars, handleVars, cmd, obs, ids, acts, sample_buffer, model,
                   bufPolicy, hh, snap>>

\* Lines 265-266
HostQuit ==
    /\ hostpc = "dispatch"
    /\ cmd.msg[1] = "quit"
    /\ hostpc' = "stopped"
    /\ wh' = [wh EXCEPT !.last = "quit"]
    /\ UNCHANGED <<pipeVars, handleVars, cmd, obs, ids, acts, sample_buffer, model,
                   bufPolicy, hh, snap>>

\* The tags compared with cmd[0] in lines 237-265.
KnownTags == {"act", "train", "sample", "save", "load", "quit"}

\* Mutant: an unknown command is answered with 'done' and the loop goes on.
HostUnknownAnswers ==
    /\ hostpc = "dispatch"
    /\ cmd.msg[1] \notin KnownTags
    /\ Respond(Done)
    /\ wh' = Finished("unknown")
    /\ UNCHANGED <<toHost, handleVars, cmd, obs, ids, acts, sample_buffer, model,
                   bufPolicy, hh, snap>>

\* Lines 267-269: the else branch, print and break.
HostUnknown ==
    /\ hostpc = "dispatch"
    /\ cmd.msg[1] \notin KnownTags
    /\ hostpc' = "stopped"
    /\ wh' = [wh EXCEPT !.last = "unknown"]
    /\ UNCHANGED <<pipeVars, handleVars, cmd, obs, ids, acts, sample_buffer, model,
                   bufPolicy, hh, snap>>

\* ------------------------------------------------------------------ Next
Next ==
    \/ sample_step
    \/ infer_action
    \/ fetch_action
    \/ train
    \/ fetch_train
    \/ save
    \/ load
    \/ check_done
    \/ quit
    \/ send_unknown
    \/ HandleRecv
    \/ HandleRecvEOF
    \/ HostStart
    \/ HostRecv
    \/ HostAct
    \/ HostTrain
    \/ HostSample
    \/ HostSave
    \/ HostLoad
    \/ HostQuit
    \/ HostUnknown

Spec == Init /\ [][Next]_vars


\* The steps of the worker process.
HostNext ==
    \/ HostStart
    \/ HostRecv
    \/ HostAct
    \/ HostTrain
    \/ HostSample
    \/ HostSave
    \/ HostLoad
    \/ HostQuit
    \/ HostUnknown

\* Both processes are scheduled: the worker takes its next step when it has
\* one, and a recv on the handle's end returns once a response is in the
\* pipe.  Nothing makes the caller call again, and nothing makes a recv on an
\* empty pipe raise after the worker is gone.
FairSpec == Init /\ [][Next]_vars /\ WF_vars(HostNext) /\ WF_vars(HandleRecv)

\* ---------------------------------------------------------------- claims
Commands == {"infer_action", "sample_step", "train", "save", "load"}
Fetches  == {"fetch_action", "fetch_train", "check_done"}
Checked  == {"sample_step", "save", "load", "check_done"}

\* The response a command must get, as far as the handle can tell from the
\* command it sent.
Answers(val, m) ==
    CASE m[1] = "act"   -> Len(val) = 6 /\ SubSeq(val, 1, 5) = <<"acts">> \o Tail(m)
      [] m[1] = "train" -> Len(val) = 2 /\ val[1] = "loss_value"
      [] OTHER          -> val = Done

\* C1: while every call made on the handle has been a command with block=True,
\* the i-th response received is received by the i-th call and is the response
\* the worker wrote for the i-th command sent: nothing is reordered, skipped
\* or duplicated.
C1_BlockingFifo ==
    hh.allBlocking =>
        /\ hh.nRecv <= hh.nSent
        /\ Len(toHandle) <= 1
        /\ hh.nRecv >= 1 =>
              /\ hh.lastRecv.of = hh.nRecv
              /\ hh.lastRecv.call = hh.nRecv
              /\ hcall.no = hh.lastRecv.call =>
                    /\ Answers(hh.lastRecv.val, hcall.msg)
                    /\ hret.kind = "return"
                    /\ hret.val = IF hcall.name \in Checked THEN None
                                                            ELSE hh.lastRecv.val

C1_Witness ==
    /\ hh.allBlocking
    /\ hh.nRecv = 4
    /\ hcall.name = "train"
    /\ hret.kind = "return"
    /\ hh.lastRecv.call = 4

\* C2: the worker writes one response for each command other than quit that
\* it reads, before it reads the next one: responses written equal dispatches
\* completed, they equal the commands read whenever the worker is back at its
\* recv, and they lie in the pipe in the order of the commands they answer.
C2_OneResponsePerCommand ==
    /\ wh.nWrote = wh.nDone
    /\ wh.nWrote <= wh.nRead
    /\ hostpc = "ready" => wh.nWrote = wh.nRead
    /\ hostpc = "dispatch" =>
          IF cmd.msg[1] = "quit"
          THEN wh.nWrote = wh.nRead
          ELSE wh.nWrote = wh.nRead - 1 /\ cmd.no = wh.nRead
    /\ Len(toHandle) = wh.nWrote - hh.nRecv
    /\ \A k \in 1..Len(toHandle) : toHandle[k].of = hh.nRecv + k

C2_Witness ==
    /\ hostpc = "ready"
    /\ wh.nWrote = 3
    /\ Len(toHandle) = 2
    /\ wh.last = "save"


\* C3: started with the worker waiting and nothing in flight, infer_action
\* with block=False followed at once by fetch_action, and infer_action with
\* block=True, both return the action vector the model infers from the inputs
\* in the state it had, and both leave the same state behind: handle idle,
\* pipe empty, worker waiting with the inputs and that vector carried, buffer
\* and model untouched.
C3_RoundTrip ==
    (snap # <<>> /\ snap[1].done) =>
        LET p == snap[1]
            a == InferResult(p.obs, p.ids, p.policy, p.eps, p.model)
        IN /\ hpc = "idle"
           /\ hret.kind = "return"
           /\ hret.name = (IF p.block THEN "infer_action" ELSE "fetch_action")
           /\ hret.val = a
           /\ toHost = <<>>
           /\ toHandle = <<>>
           /\ Outstanding = 0
           /\ hostpc = "ready"
           /\ obs = <<p.obs>>
           /\ ids = <<p.ids>>
           /\ acts = <<a>>
           /\ sample_buffer = p.buffer
           /\ model = p.model

C3_Witness ==
    /\ snap # <<>>
    /\ snap[1].done
    /\ ~snap[1].block
    /\ hret.name = "fetch_action"
    /\ model.gen = 1
    /\ Len(sample_buffer.steps) = 1

\* C4: a train dispatch hands the model the buffer filled by the record_step
\* calls made since the previous train (or since the start) and leaves a new
\* empty buffer of the same capacity; when exactly one step was sampled since
\* the previous train, that step is the only transition the model is given.
C4_TrainResetsBuffer ==
    wh.last = "train" =>
        /\ sample_buffer = [capacity |-> Capacity, steps |-> <<>>]
        /\ Len(model.fed) = 1
        /\ Len(model.fed[1]) = Min(wh.fedSince, Capacity)
        /\ wh.fedSince = 1 => model.fed[1] = wh.fedLast
        /\ wh.since = 0

C4_Witness ==
    /\ wh.last = "train"
    /\ model.gen = 2
    /\ wh.fedSince = 1
    /\ Len(model.fed[1]) = 1

\* C5: the buffer never holds more steps than its capacity, however many
\* samples are recorded between two trains; a train after more samples than
\* the capacity gives the model exactly capacity steps and leaves the buffer
\* empty.
C5_CapacityBound ==
    /\ Len(sample_buffer.steps) <= Capacity
    /\ sample_buffer.capacity \in {0, Capacity}
    /\ hostpc \in {"ready", "dispatch"} => sample_buffer.capacity = Capacity
    /\ model.fed # <<>> => Len(model.fed[1]) <= Capacity
    /\ (wh.last = "train" /\ wh.fedSince > Capacity) =>
          /\ Len(model.fed[1]) = Capacity
          /\ sample_buffer.steps = <<>>

C5_Witness ==
    /\ wh.last = "train"
    /\ wh.fedSince = Capacity + 1
    /\ Len(model.fed[1]) = Capacity
    /\ sample_buffer.steps = <<>>


\* C6 as claimed: once quit has been called, no later call receives a
\* response.
C6_Original == hh.quit => hh.lastRecv.call < hh.quitCall

\* C6 as amended: once quit has been called, no command sent after it is read
\* or answered by the worker, and a later call that waits for a response
\* either receives the response to a command sent before the quit, stays
\* blocked, or fails with a channel failure.
C6_AfterQuit ==
    hh.quit =>
        /\ wh.nRead <= hh.quitAt
        /\ wh.nWrote <= hh.quitAt
        /\ hostpc = "dispatch" => cmd.no <= hh.quitAt
        /\ \A k \in 1..Len(toHandle) : toHandle[k].of <= hh.quitAt
        /\ hh.lastRecv.of <= hh.quitAt
        /\ (hcall.no > hh.quitCall /\ hcall.block /\ hret.no = hcall.no) =>
              \/ hret.kind = "running"
              \/ hret.kind = "raise" /\ hret.val \in {<<"EOFError">>, <<"BrokenPipeError">>}
              \/ hh.lastRecv.call = hcall.no /\ hh.lastRecv.of <= hh.quitAt

C6_Witness ==
    /\ hh.quit
    /\ hostpc = "stopped"
    /\ hcall.no > hh.quitCall
    /\ hcall.name = "infer_action"
    /\ hpc = "recv"
    /\ hh.nSent > hh.quitAt
    /\ toHost # <<>>

\* C7 as claimed: at most one response is ever outstanding.
C7_Original == Outstanding <= 1

\* C7 as amended: as long as the caller keeps the request discipline (one
\* command at a time, each non-blocking command drained by its fetch, nothing
\* after quit or a failed call), at most one response is outstanding and at
\* most one command lies unread in the pipe.
C7_HalfDuplex ==
    hh.disciplined =>
        /\ Outstanding \in {0, 1}
        /\ Len(toHost) <= 2
        /\ Len(toHost) = 2 => toHost[2].msg[1] = "quit"
        /\ Len(toHandle) <= 1

C7_Witness ==
    /\ hh.disciplined
    /\ Outstanding = 1
    /\ hpc = "idle"
    /\ hh.pending = "train"
    /\ hh.nCalls = 4
    /\ toHandle # <<>>

C9_CheckDone ==
    (hcall.name \in Checked /\ hcall.block /\ hret.no = hcall.no) =>
        /\ hh.lastRecv.call = hcall.no =>
              /\ hh.nRecv = hh.recvAtCall + 1
              /\ hret.kind # "running"
              /\ (hret.kind = "return") <=> (hh.lastRecv.val = Done)
              /\ hh.lastRecv.val # Done =>
                    hret = Raised(hcall.name, hcall.no, "AssertionError")
        /\ hh.lastRecv.call # hcall.no =>
              /\ hh.nRecv = hh.recvAtCall
              /\ hret.kind # "return"

C9_Witness ==
    /\ hcall.name = "sample_step"
    /\ hret = Raised("sample_step", 2, "AssertionError")
    /\ hh.lastRecv.call = 2
    /\ hh.lastRecv.val[1] = "acts"
    /\ Len(toHandle) = 1
    /\ toHandle[1].val = Done

\* C10 as claimed: every sample dispatch records one transition and sends
\* 'done'.
C10_Original ==
    (cmd.msg[1] = "sample" /\ hostpc # "dispatch") =>
        /\ hostpc = "ready"
        /\ wh.last = "sample"

\* C10 as amended: every sample dispatch made after the worker has dispatched
\* an 'act' calls record_step once, with the ids, observation and action
\* vector of the latest 'act' dispatched and the rewards and alives of the
\* sample command, then sends 'done'; whatever was dispatched in between.
C10_SampleRecords ==
    (cmd.msg[1] = "sample" /\ hostpc # "dispatch" /\ wh.lastInfer # <<>>) =>
        /\ hostpc = "ready"
        /\ wh.last = "sample"
        /\ wh.lastStep = <<[ids     |-> wh.lastInfer[1].ids,
                            obs     |-> wh.lastInfer[1].obs,
                            acts    |-> wh.lastInfer[1].acts,
                            rewards |-> cmd.msg[2],
                            alives  |-> cmd.msg[3]]>>
        /\ wh.since >= 1
        /\ Len(sample_buffer.steps) = Min(wh.since, Capacity)
        /\ (wh.since <= Capacity \/ bufPolicy = "evict") =>
              sample_buffer.steps[Len(sample_buffer.steps)] = wh.lastStep[1]
        /\ cmd.no > hh.nRecv =>
              toHandle[cmd.no - hh.nRecv] = [val |-> Done, of |-> cmd.no]

C10_Witness ==
    /\ cmd.msg[1] = "sample"
    /\ hostpc = "ready"
    /\ wh.last = "sample"
    /\ model.gen = 1
    /\ model.saved # <<>>
    /\ wh.lastInfer[1].acts[6] = 0
    /\ wh.since = 1
    /\ sample_buffer.steps = wh.lastStep

\* The message a method puts on the pipe: its tag, then its arguments in the
\* order of the wire contract.
WireShape(name, m) ==
    CASE name = "infer_action" ->
             /\ Len(m) = 5
             /\ m[1] = "act"
             /\ m[2] \in ObsSet
             /\ m[3] \in IdsSet
             /\ m[4] \in PolicySet
             /\ m[5] \in EpsSet
      [] name = "sample_step" ->
             /\ Len(m) = 3
             /\ m[1] = "sample"
             /\ m[2] \in RewardSet
             /\ m[3] \in AliveSet
      [] name = "train" ->
             /\ Len(m) = 2
             /\ m[1] = "train"
             /\ m[2] \in PrintSet
      [] name = "save" ->
             /\ Len(m) = 3
             /\ m[1] = "save"
             /\ m[2] \in DirSet
             /\ m[3] \in EpochSet
      [] name = "load" ->
             /\ Len(m) = 4
             /\ m[1] = "load"
             /\ m[2] \in DirSet
             /\ m[3] \in EpochSet
             /\ m[4] \in NameSet
      [] name = "quit" -> m = <<"quit">>
      [] OTHER -> FALSE

\* C11: a call of infer_action, sample_step, train, save, load or quit whose
\* send succeeds appends exactly one message to the pipe, with the tag and the
\* payload of the wire contract (sample carries rewards and alives only, quit
\* nothing); fetch_action, fetch_train and check_done, and every receive, put
\* nothing on the pipe.
C11_WireContract ==
    [][ /\ (hh'.nCalls = hh.nCalls + 1 /\ hcall'.name \in Commands \cup {"quit"}) =>
              \/ hret'.kind = "raise" /\ toHost' = toHost
              \/ /\ hret'.kind # "raise"
                 /\ Len(toHost') = Len(toHost) + 1
                 /\ SubSeq(toHost', 1, Len(toHost)) = toHost
                 /\ WireShape(hcall'.name, toHost'[Len(toHost')].msg)
        /\ (hh'.nCalls = hh.nCalls + 1 /\ hcall'.name \in Fetches) => toHost' = toHost
        /\ hh'.nCalls = hh.nCalls => Len(toHost') <= Len(toHost) ]_vars

C11_Witness ==
    /\ hcall.name = "sample_step"
    /\ hret.kind = "return"
    /\ Len(toHost) = 2
    /\ toHost[1].msg = <<"load", "dir", 3, "None">>
    /\ toHost[2].msg = <<"sample", 5, 1>>

\* C12: quit puts the quit message on the pipe and returns without receiving;
\* the worker, dispatching quit, writes no response and leaves its loop, and
\* once stopped it never again reads, dispatches, changes its buffer, model
\* or locals, or writes.
C12_QuitStops ==
    [][ /\ (hh'.nCalls = hh.nCalls + 1 /\ hcall'.name = "quit") =>
              /\ hpc' = "idle"
              /\ hret'.kind \in {"return", "raise"}
              /\ toHandle' = toHandle
              /\ hh'.nRecv = hh.nRecv
              /\ hret'.kind = "return" => toHost' = Append(toHost, [msg |-> <<"quit">>, no |-> 0])
        /\ (hostpc = "dispatch" /\ cmd.msg[1] = "quit" /\ hostpc' # "dispatch") =>
              /\ hostpc' = "stopped"
              /\ toHandle' = toHandle
              /\ wh'.nWrote = wh.nWrote
              /\ UNCHANGED <<toHost, cmd, obs, ids, acts, sample_buffer, model>>
        /\ hostpc = "stopped" =>
              /\ UNCHANGED <<hostpc, cmd, obs, ids, acts, sample_buffer, model, wh>>
              /\ Len(toHost') >= Len(toHost)
              /\ Len(toHandle') <= Len(toHandle) ]_vars

C12_Witness ==
    /\ hostpc = "stopped"
    /\ cmd.msg[1] = "quit"
    /\ hret.name = "save"
    /\ hpc = "recv"
    /\ hh.quitCall = 2
    /\ Len(toHost) = 1
    /\ toHandle = <<>>
    /\ wh.nWrote = 1

\* C13 as claimed: a worker that has read a command and is gone has left its
\* loop on quit.
C13_Original == (HostGone /\ cmd # NoCmd) => cmd.msg[1] = "quit"

\* C13 as amended: the worker leaves its loop only while dispatching, and only
\* by the break of quit, the break of an unknown tag, an exception out of the
\* model's infer_action, train, save or load, or the NameError of a sample
\* dispatched before any act; nothing the handle does and no other command
\* stops it.
C13_StopCauses ==
    [][ (hostpc \in {"ready", "dispatch"} /\ hostpc' \in {"stopped", "crashed"}) =>
            /\ hostpc = "dispatch"
            /\ \/ cmd.msg[1] = "quit" /\ hostpc' = "stopped"
               \/ cmd.msg[1] \notin {"act", "train", "sample", "save", "load", "quit"}
                     /\ hostpc' = "stopped"
               \/ cmd.msg[1] \in {"act", "train", "save", "load"} /\ hostpc' = "crashed"
               \/ cmd.msg[1] = "sample" /\ wh.lastInfer = <<>> /\ hostpc' = "crashed" ]_vars

C13_Witness ==
    /\ hostpc = "crashed"
    /\ cmd.msg[1] = "train"
    /\ wh.nWrote = 2
    /\ wh.last = "sample"
    /\ hpc = "recv"

\* C14: the dispatch of a command whose tag is none of act, train, sample,
\* save, load, quit writes nothing to the pipe, leaves the model, the buffer
\* and the carried ids/obs/acts as they were and ends the loop; no response
\* numbered for that command is ever written or received, so a handle waiting
\* for one never gets it.
C14_UnknownTag ==
    /\ [](((HostGone \/ hostpc = "ready") /\ cmd.msg[1] \notin
              {"none", "act", "train", "sample", "save", "load", "quit"}) =>
            /\ hostpc = "stopped"
            /\ wh.nWrote = cmd.no - 1
            /\ hh.nRecv < cmd.no
            /\ hh.lastRecv.of < cmd.no
            /\ \A k \in 1..Len(toHandle) : toHandle[k].of < cmd.no
            /\ (hpc = "recv" /\ hh.nRecv = cmd.no - 1) => toHandle = <<>>)
    /\ [][ (hostpc = "dispatch" /\ hostpc' # "dispatch" /\ cmd.msg[1] \notin
              {"act", "train", "sample", "save", "load", "quit"}) =>
            /\ hostpc' = "stopped"
            /\ wh' = [wh EXCEPT !.last = "unknown"]
            /\ UNCHANGED <<toHost, toHandle, cmd, obs, ids, acts, sample_buffer,
                           model>> ]_vars

C14_Witness ==
    /\ hostpc = "stopped"
    /\ cmd = [msg |-> <<"bogus">>, no |-> 2]
    /\ hcall.name = "check_done"
    /\ hpc = "recv"
    /\ hh.nRecv = 1
    /\ toHandle = <<>>
    /\ sample_buffer = NewBuffer(Capacity)

\* C17: whatever the caller does, the k-th receive of the handle takes the
\* response the worker wrote for the k-th command other than quit, and the
\* methods that return what they receive return exactly that; the worker
\* writes for each command the response of that command's tag.  So a blocking
\* train called right after an undrained non-blocking infer_action returns
\* that infer's action vector.
C17_KthReceive ==
    /\ [](/\ hh.nRecv >= 1 => hh.lastRecv.of = hh.nRecv
          /\ \A k \in 1..Len(toHandle) : toHandle[k].of = hh.nRecv + k
          /\ (hret.kind = "return" /\ hh.lastRecv.call = hret.no
                /\ hret.name \in {"infer_action", "fetch_action", "train", "fetch_train"})
                => hret.val = hh.lastRecv.val
          /\ (hcall.no = 2 /\ hcall.name = "train" /\ hcall.block
                /\ hh.pending = "action" /\ hret.kind = "return")
                => /\ hh.lastRecv = [call |-> 2, of |-> 1, val |-> hret.val]
                   /\ hret.val = wh.lastInfer[1].acts
                   /\ hret.val[1] = "acts")
    /\ [][ Len(toHandle') > Len(toHandle) =>
             /\ Len(toHandle') = Len(toHandle) + 1
             /\ toHandle'[Len(toHandle')].of = cmd.no
             /\ toHandle'[Len(toHandle')].val[1] =
                   (CASE cmd.msg[1] = "act" -> "acts"
                      [] cmd.msg[1] = "train" -> "loss_value"
                      [] OTHER -> "done") ]_vars

C17_Witness ==
    /\ hcall.no = 2
    /\ hcall.name = "train"
    /\ hcall.block
    /\ hh.pending = "action"
    /\ hret.kind = "return"
    /\ hret.val = <<"acts", 2, 7, "e_greedy", 0, 0>>
    /\ toHandle = <<[val |-> <<"loss_value", 1>>, of |-> 2]>>

\* C18: a 'sample' dispatched before the worker has dispatched any 'act' finds
\* ids, obs and acts unbound: the dispatch records nothing, writes nothing
\* and ends the worker, which then holds an empty buffer and has answered only
\* the commands before it.  A sample_step that is the first call on the handle
\* therefore finds no response: with block=True it never returns.
C18_EarlySample ==
    /\ []((cmd.msg[1] = "sample" /\ wh.lastInfer = <<>> /\ hostpc # "dispatch") =>
            /\ hostpc = "crashed"
            /\ sample_buffer.steps = <<>>
            /\ wh.since = 0
            /\ wh.lastStep = <<>>
            /\ wh.nWrote = cmd.no - 1
            /\ hh.nRecv < cmd.no
            /\ \A k \in 1..Len(toHandle) : toHandle[k].of < cmd.no)
    /\ []((hcall.no = 1 /\ hcall.name = "sample_step") =>
            /\ toHandle = <<>>
            /\ hh.nRecv = 0
            /\ wh.nWrote = 0
            /\ hcall.block => hret.kind \in {"running", "raise"}
            /\ hret.kind = "raise" => hret.val \in {<<"EOFError">>, <<"BrokenPipeError">>})
    /\ [][ (hostpc = "dispatch" /\ cmd.msg[1] = "sample" /\ wh.lastInfer = <<>>
              /\ hostpc' # "dispatch") =>
            /\ hostpc' = "crashed"
            /\ UNCHANGED <<toHost, toHandle, cmd, obs, ids, acts, sample_buffer,
                           model, wh>> ]_vars

C18_Witness ==
    /\ hcall.no = 1
    /\ hcall.name = "sample_step"
    /\ hcall.block
    /\ hpc = "recv"
    /\ hostpc = "crashed"
    /\ cmd = [msg |-> <<"sample", 5, 1>>, no |-> 1]
    /\ sample_buffer = NewBuffer(Capacity)
    /\ toHandle = <<>>

\* C19: what a dispatch leaves alone.  'act', 'save' and 'load' leave the
\* buffer as it was; 'sample', 'train', 'save' and 'load' leave ids, obs and
\* acts as they were; 'sample' leaves the buffer's capacity and adds at most
\* one step; only 'train' puts a fresh buffer in place of one that holds
\* steps; quit and an unknown tag change none of them; and between dispatches
\* nothing changes the worker's locals.
C19_Frame ==
    [][ /\ (hostpc = "dispatch" /\ hostpc' # "dispatch") =>
             /\ cmd.msg[1] \in {"act", "save", "load"} => sample_buffer' = sample_buffer
             /\ cmd.msg[1] \in {"sample", "train", "save", "load"} =>
                   UNCHANGED <<obs, ids, acts>>
             /\ cmd.msg[1] = "sample" =>
                   /\ sample_buffer'.capacity = sample_buffer.capacity
                   /\ Len(sample_buffer'.steps) \in
                         {Len(sample_buffer.steps), Len(sample_buffer.steps) + 1}
                   /\ model' = model
             /\ cmd.msg[1] \in {"act", "sample"} => model' = model
             /\ cmd.msg[1] \notin {"act", "train", "sample", "save", "load"} =>
                   UNCHANGED <<obs, ids, acts, sample_buffer, model>>
             /\ cmd' = cmd
        /\ (sample_buffer.steps # <<>> /\ sample_buffer'.steps = <<>>) =>
             /\ hostpc = "dispatch"
             /\ cmd.msg[1] = "train"
             /\ sample_buffer' = NewBuffer(Capacity)
        /\ (hostpc # "dispatch" /\ hostpc # "init") =>
             UNCHANGED <<obs, ids, acts, sample_buffer, model>> ]_vars

C19_Witness ==
    /\ hostpc = "ready"
    /\ wh.last = "load"
    /\ model.loaded # <<>>
    /\ Len(sample_buffer.steps) = 1
    /\ ids = <<7>>
    /\ obs = <<2>>
    /\ wh.nWrote = 3


\* C15 as claimed: when a model call that raised in the dispatch of act, train,
\* save or load has ended the worker, a handle waiting in a receive gets the
\* responses still in the pipe or a channel failure: it is not left blocked.
C15_Original ==
    (hostpc = "crashed" /\ cmd.msg[1] \in {"act", "train", "save", "load"} /\ hpc = "recv")
        ~> (hpc = "idle")

\* C16: with both processes scheduled, a call that keeps the discipline and
\* waits for a response returns unless the worker leaves its loop first; a
\* non-blocking command returns in the step of its send and receives nothing;
\* and while the caller keeps the discipline the handle is never waiting on an
\* empty pipe while the worker waits for a command on an empty pipe.
C16_DisciplinedReturns ==
    /\ [](hh.disciplined /\ hpc = "recv" /\ hostpc = "ready" =>
             toHost # <<>> \/ toHandle # <<>>)
    /\ [][ (hh'.nCalls = hh.nCalls + 1 /\ hcall'.name \in Commands /\ ~hcall'.block) =>
             /\ hpc' = "idle"
             /\ hret'.kind \in {"return", "raise"}
             /\ hret'.val \in {None, <<"BrokenPipeError">>}
             /\ hh'.nRecv = hh.nRecv
             /\ toHandle' = toHandle ]_vars
    /\ (hh.disciplined /\ hpc = "recv") ~> (hpc = "idle" \/ HostGone)

C16_Witness ==
    /\ hh.disciplined
    /\ hostpc = "ready"
    /\ hret = [name |-> "fetch_train", no |-> 4, kind |-> "return",
               val |-> <<"loss_value", 1>>]
    /\ hh.lastRecv.call = 4
    /\ hh.nRecv = 3
    /\ Quiescent

====
